---- MODULE Spec2Model ----
(***************************************************************************)
(* BambooHRClient (src/src/services/bamboohr-client.ts): the request       *)
(* pipeline of makeRequest -- the read cache, the retry loop with backoff  *)
(* on 429/503 and the error records it raises -- as a state machine.       *)
(* One step is one run of JavaScript between two awaits: a call starts and *)
(* runs to its first fetch, a fetch resolves or rejects, a body read       *)
(* resolves or rejects, a backoff timer fires.  Date.now() is the variable *)
(* now, advanced by Tick.                                                  *)
(***************************************************************************)
EXTENDS Integers, Sequences, FiniteSets, TLC

\* ------------------------------------------------------------- bounds
\* Slots for makeRequest calls on the one client (Spec and SpecRetry run
\* their calls one after another, in slot 1).
MaxCalls == 2
\* Number of times the clock advances in a behaviour of Spec, of SpecRetry.
MaxTicks == 2
MaxRetryTicks == 3
MaxBackoffTicks == 5
MaxConcurrentTicks == 1
\* clock advances in the specification with fairness
MaxLiveTicks == 3
\* the largest total, count, offset and limit given to createPaginationInfo
MaxTotal == 3

\* ---------------------------------------------------- program constants
cacheTTL == 5 * 60 * 1000
DefaultMaxRetries == 3
InitialRetryDelay == 1000
MaxRetryDelay == 8000
JitterRange == 1000
\* setTimeout takes a delay of 1 ms to 2^31 - 1 ms; any other delay (NaN
\* too) is set to 1 ms.
MinTimerDelay == 1
MaxTimerDelay == 2147483647

\* --------------------------------------------------------------- inputs
Slots == 1..MaxCalls
Methods == {"GET", "POST", "PUT", "DELETE"}
Mutations == {"POST", "PUT", "DELETE"}
Endpoints == {"/employees/1"}

\* queryParams?: Record<string, string|number|boolean>: undefined, or the
\* entries of the object in insertion order.
Undefined == [defined |-> FALSE, entries |-> <<>>]
Obj(entries) == [defined |-> TRUE, entries |-> entries]
QueryParamsSet ==
    { Undefined,
      Obj(<< [k |-> "a", v |-> 1], [k |-> "b", v |-> 2] >>),
      Obj(<< [k |-> "b", v |-> 2], [k |-> "a", v |-> 1] >>) }

\* maxRetries arguments tried; the wrappers get/post/put/delete pass none.
Budgets == {0, 1, DefaultMaxRetries}

\* Math.random() * 1000 lies in [0, 1000): the two ends, in whole ms.
Jitters == {0, JitterRange - 1}

\* Parsed JSON bodies (null is a legal JSON document) and text bodies.
JsonNull == "null"
JsonBodies == {"d1", "d2", JsonNull}
TextBodies == {"t1"}
EmptyObject == "{}"

\* -------------------------------------------------------------- helpers
Min(a, b) == IF a <= b THEN a ELSE b

RECURSIVE JoinEntries(_)
JoinEntries(es) ==
    IF es = <<>> THEN ""
    ELSE "\"" \o Head(es).k \o "\":" \o ToString(Head(es).v)
         \o (IF Len(es) > 1 THEN "," ELSE "") \o JoinEntries(Tail(es))

\* JSON.stringify of a flat object: members in insertion order.
JSONstringify(entries) == "{" \o JoinEntries(entries) \o "}"

\* A variant that puts the members in one order before it builds the key.
getCacheKeyCanonical(endpoint, queryParams) ==
    LET members(q) == { q.entries[i] : i \in 1..Len(q.entries) }
        canonical == CHOOSE q \in QueryParamsSet :
                        q.defined = queryParams.defined /\ members(q) = members(queryParams)
    IN  endpoint \o (IF queryParams.defined THEN JSONstringify(canonical.entries) ELSE "")
\* getCacheKey(endpoint, queryParams)
getCacheKey(endpoint, queryParams) ==
    endpoint \o (IF queryParams.defined THEN JSONstringify(queryParams.entries) ELSE "")

Keys == { getCacheKey(e, q) : e \in Endpoints, q \in QueryParamsSet }

\* ---------------------------------------------------------------- errors
\* ApiError { error; message; status? } (types.ts).  A value thrown by fetch
\* or by response.json() is an Error object: it has a message, and neither
\* an error nor a status property.
NoField == "<undefined>"
NoStatus == 0
ApiErr(kind, message, status) == [error |-> kind, message |-> message, status |-> status]
NoError == ApiErr(NoField, "", NoStatus)
FetchFailed == ApiErr(NoField, "fetch failed", NoStatus)
BodyFailed == ApiErr(NoField, "Unexpected token in JSON", NoStatus)

StatusText(status) ==
    CASE status = 200 -> "OK"
      [] status = 204 -> "No Content"
      [] status = 401 -> "Unauthorized"
      [] status = 403 -> "Forbidden"
      [] status = 404 -> "Not Found"
      [] status = 429 -> "Too Many Requests"
      [] status = 500 -> "Internal Server Error"
      [] status = 503 -> "Service Unavailable"
      [] OTHER -> ""

\* (the arrow in the 401 message is written -> here)
MsgAuth == "Authentication failed. The API key is invalid or has been revoked. Please verify BAMBOOHR_API_KEY in your .env file and ensure the key is still active in BambooHR -> API Keys settings."
MsgForbidden == "Access forbidden. The user associated with this API key lacks permissions for this resource. Generate a new API key with an admin or appropriately permissioned user."
MsgNotFound == "Resource not found. Verify the employee ID or resource identifier is correct."
MsgMaxRetries == "Rate limit exceeded. Maximum retry attempts reached. Please try again later."

\* ------------------------------------------------------------- responses
NoHeader == "<null>"
ContentTypes == {NoHeader, "application/json; charset=utf-8", "text/plain"}
\* contentType.includes('application/json')
IncludesJson(contentType) == contentType \in {"application/json", "application/json; charset=utf-8"}

\* A Retry-After header: absent (headers.get gives null), or its characters.
Absent == [present |-> FALSE, chars |-> <<>>]
Hdr(chars) == [present |-> TRUE, chars |-> chars]
\* none, the empty string, delta-seconds 0 and 2, delta-seconds whose 1000-fold
\* is more than a timer takes (some 25 days), an HTTP date.
RetryAfterHeaders ==
    { Absent, Hdr(<<>>), Hdr(<<"0">>), Hdr(<<"2">>),
      Hdr(<<"2", "1", "4", "7", "4", "8", "4">>), Hdr(<<"F", "r", "i", ",">>) }
ErrorHeaders == {NoHeader, "", "Employee is locked"}

OkStatuses == {200, 204}
RateLimitStatuses == {429, 503}
TerminalStatuses == {401, 403, 404, 500}

Response(status, contentType, retryAfter, errorHeader) ==
    [status |-> status, contentType |-> contentType,
     retryAfter |-> retryAfter, errorHeader |-> errorHeader]
NoResponse == Response(NoStatus, NoHeader, Absent, NoHeader)

\* What the upstream can answer.  Headers the client never reads for a given
\* status are left out.
Responses ==
    { Response(s, ct, Absent, NoHeader) : s \in OkStatuses, ct \in ContentTypes }
    \cup { Response(s, NoHeader, ra, NoHeader) : s \in RateLimitStatuses, ra \in RetryAfterHeaders }
    \cup { Response(s, NoHeader, Absent, eh) : s \in RateLimitStatuses \cup TerminalStatuses, eh \in ErrorHeaders }

\* response.ok
IsOk(status) == status >= 200 /\ status <= 299

\* parseInt(string): the value of the leading decimal digits, NaN when the
\* string starts with none.
NaN == -1
Digits == {"0", "1", "2", "3", "4", "5", "6", "7", "8", "9"}
DigitValue(ch) ==
    CASE ch = "0" -> 0 [] ch = "1" -> 1 [] ch = "2" -> 2 [] ch = "3" -> 3
      [] ch = "4" -> 4 [] ch = "5" -> 5 [] ch = "6" -> 6 [] ch = "7" -> 7
      [] ch = "8" -> 8 [] ch = "9" -> 9
RECURSIVE ParseDigits(_, _)
ParseDigits(chars, acc) ==
    IF chars = <<>> \/ Head(chars) \notin Digits THEN acc
    ELSE ParseDigits(Tail(chars), acc * 10 + DigitValue(Head(chars)))
parseInt(chars) ==
    IF chars = <<>> \/ Head(chars) \notin Digits THEN NaN ELSE ParseDigits(chars, 0)

\* A header value is truthy unless it is null or the empty string.
Truthy(header) == header.present /\ header.chars # <<>>

\* A number of milliseconds, held as whole seconds and the milliseconds
\* left over: parseInt(retryAfter) * 1000 is a double in the program, and can
\* be more than a 32-bit integer holds.
Span(seconds, millis) == [seconds |-> seconds, millis |-> millis]
SpanOf(ms) == Span(ms \div 1000, ms % 1000)
NaNSpan == Span(NaN, 0)

\* A variant that never reads the header.
WaitTimeBackoffOnly(retryAfter, retryDelay) == SpanOf(retryDelay)
\* retryAfter ? parseInt(retryAfter) * 1000 : retryDelay
WaitTime(retryAfter, retryDelay) ==
    IF Truthy(retryAfter)
    THEN (IF parseInt(retryAfter.chars) = NaN THEN NaNSpan ELSE Span(parseInt(retryAfter.chars), 0))
    ELSE SpanOf(retryDelay)

\* sleep(ms): setTimeout(resolve, ms) fires no earlier than ms from now, and
\* treats NaN, a delay below 1 and a delay above 2^31 - 1 as 1.
TimerDelay(span) ==
    IF \/ span = NaNSpan
       \/ span.seconds > MaxTimerDelay \div 1000
       \/ span.seconds = MaxTimerDelay \div 1000 /\ span.millis > MaxTimerDelay % 1000
       \/ span.seconds * 1000 + span.millis < MinTimerDelay
    THEN MinTimerDelay
    ELSE span.seconds * 1000 + span.millis

\* A variant without the cap.
NextRetryDelayUncapped(retryDelay, jitter) == retryDelay * 2 + jitter
\* Math.min(retryDelay * 2 + Math.random() * 1000, 8000)
NextRetryDelay(retryDelay, jitter) == Min(retryDelay * 2 + jitter, MaxRetryDelay)

\* `${waitTime / 1000}`: a number of seconds as JavaScript prints it.
FormatSeconds(span) ==
    IF span = NaNSpan THEN "NaN"
    ELSE LET whole == span.seconds
             frac == span.millis
         IN  ToString(whole) \o
             (IF frac = 0 THEN ""
              ELSE "." \o (IF frac % 100 = 0 THEN ToString(frac \div 100)
                           ELSE (IF frac < 100 THEN "0" ELSE "") \o
                                (IF frac % 10 = 0 THEN ToString(frac \div 10)
                                 ELSE (IF frac < 10 THEN "0" ELSE "") \o ToString(frac))))

MsgRetrying(waitTime, attempt, maxRetries) ==
    "Rate limit exceeded. Retrying after " \o FormatSeconds(waitTime)
    \o " seconds... (Attempt " \o ToString(attempt + 1) \o "/" \o ToString(maxRetries) \o ")"

\* A variant that never reads the header.
ErrorMessageStatusOnly(response) ==
    "HTTP " \o ToString(response.status) \o ": " \o StatusText(response.status)
\* response.headers.get('X-BambooHR-Error-Message') || `HTTP ${status}: ${statusText}`
ErrorMessage(response) ==
    IF response.errorHeader # NoHeader /\ response.errorHeader # ""
    THEN response.errorHeader
    ELSE "HTTP " \o ToString(response.status) \o ": " \o StatusText(response.status)

\* ----------------------------------------------------------------- state
VARIABLES
    cache,      \* this.cache: Map<string, CacheEntry>, a function on the keys present
    now,        \* Date.now(), in ms since the client was constructed
    calls,      \* one record per makeRequest call in flight (or free slot)
    ticks,      \* how often the clock has advanced
    history     \* per cache key, when earlier calls ended (for the properties)

vars == <<cache, now, calls, ticks, history>>

\* CacheEntry { data; timestamp }, and (for the properties) the call that
\* stored it: its method, its cache key, the status it was answered with.
NoCall == [method |-> "", key |-> "", status |-> NoStatus]
StoredBy(call) == [method |-> call.method, key |-> getCacheKey(call.endpoint, call.queryParams), status |-> call.response.status]
CacheEntry(data, timestamp, by) == [data |-> data, timestamp |-> timestamp, by |-> by]

NoValue == "<none>"
NoResult == [state |-> "pending", value |-> NoValue, error |-> NoError]
Returned(value) == [state |-> "returned", value |-> value, error |-> NoError]
Thrown(error) == [state |-> "thrown", value |-> NoValue, error |-> error]

\* The arguments of a tool call that the properties are about: confirm as
\* the caller sent it (true, false, or not at all), status and note of a
\* status change, adjustment_amount of a balance adjustment.
NoParams == [confirm |-> "undefined", status |-> "", note |-> NoField, amount |-> 0]

\* fileData: Buffer | string, fileName as its characters, categoryId?: string.
BufferOf(bytes) == [type |-> "Buffer", bytes |-> bytes, chars |-> <<>>]
StringOf(chars) == [type |-> "string", bytes |-> <<>>, chars |-> chars]
NoFile == [data |-> BufferOf(<<>>), name |-> <<>>, category |-> NoField]
\* Buffer.concat([prefixBuffer, fileBuffer, suffixBuffer]): the pieces of
\* text before the file, the file's bytes, the pieces of text after it.
NoBody == [prefix |-> <<>>, file |-> <<>>, suffix |-> <<>>]
NoUpload == [args |-> NoFile, boundary |-> "", body |-> NoBody, location |-> Absent]

NoPage == [total |-> 0, count |-> 0, offset |-> 0, limit |-> 0, info |-> <<>>]

\* A free slot; also the shape of a call's record.
IdleCall ==
    [ pc |-> "idle", method |-> "GET", endpoint |-> "", queryParams |-> Undefined,
      maxRetries |-> 0,
      attempt |-> 0, retryDelay |-> InitialRetryDelay, lastError |-> NoError,
      wakeAt |-> 0, result |-> NoResult,
      \* bookkeeping for the properties: the last response received (none
      \* once a fetch has rejected), fetches issued, sleeps begun, awaits
      \* that rejected, whether a 429/503 was answered, when the current
      \* sleep began, whether the call wrote the cache
      response |-> NoResponse,
      netCalls |-> 0, sleeps |-> 0, rejects |-> 0, rateLimited |-> FALSE, sleptAt |-> 0,
      stored |-> FALSE,
      \* whether the call's lookup deleted a stale entry
      evicted |-> FALSE,
      \* the client method that was called
      op |-> "makeRequest",
      \* the tool whose handler made the call, and the arguments it was given
      tool |-> "", params |-> NoParams,
      \* the arguments of an upload, the boundary it chose and the body it sent
      upload |-> NoUpload,
      \* the arguments of createPaginationInfo and the object it returned
      page |-> NoPage,
      \* the format argument of getReport
      format |-> "json" ]

\* new Map()
EmptyMap == [k \in {} |-> CacheEntry(NoValue, 0, NoCall)]

\* Per key: whether a GET has returned a response from the network at the
\* present value of now; when the value the map holds, or held until a
\* lookup found it stale, was stored; whether a POST/PUT/DELETE for the key
\* has returned since.
Never == -1
NoHistory == [okNow |-> FALSE, storedAt |-> Never, mutated |-> FALSE]

Init ==
    /\ cache = EmptyMap
    /\ now = 0
    /\ calls = [c \in Slots |-> IdleCall]
    /\ ticks = 0
    /\ history = [k \in Keys |-> NoHistory]

KeyOf(call) == getCacheKey(call.endpoint, call.queryParams)

\* ----------------------------------------------------------------- cache
\* A variant that lets an entry expire when it is exactly cacheTTL old.
IsStaleAtTTL(entry, t) == t - entry.timestamp >= cacheTTL
\* now - entry.timestamp > this.cacheTTL
IsStale(entry, t) == t - entry.timestamp > cacheTTL

Remove(map, key) == [k \in DOMAIN map \ {key} |-> map[k]]

\* A variant that reports a stale entry as a miss and leaves it in the map.
getFromCacheKeepStale(map, key, t) ==
    IF key \notin DOMAIN map \/ IsStale(map[key], t) THEN [value |-> JsonNull, cache |-> map]
    ELSE [value |-> map[key].data, cache |-> map]
\* getFromCache(key): the value returned (JsonNull for a miss: the method
\* returns null) and the map afterwards.
getFromCache(map, key, t) ==
    IF key \notin DOMAIN map THEN [value |-> JsonNull, cache |-> map]
    ELSE IF IsStale(map[key], t) THEN [value |-> JsonNull, cache |-> Remove(map, key)]
    ELSE [value |-> map[key].data, cache |-> map]

\* `if (method === 'GET')` before the lookup and before the store, each
\* with a variant that lets every method through.
ReadsCacheAlways(method) == TRUE
ReadsCache(method) == method = "GET"
WritesCacheAlways(method) == TRUE
WritesCache(method) == method = "GET"

\* A variant that keeps the entry a key already has.
setCacheKeepFirst(map, key, data, t, by) ==
    [k \in DOMAIN map \cup {key} |-> IF k \in DOMAIN map THEN map[k] ELSE CacheEntry(data, t, by)]
\* A variant that drops the stale entries whenever it stores one.
setCacheSweeping(map, key, data, t, by) ==
    [k \in {x \in DOMAIN map : ~IsStale(map[x], t)} \cup {key} |->
        IF k = key THEN CacheEntry(data, t, by) ELSE map[k]]
\* setCache(key, data)
setCache(map, key, data, t, by) ==
    [k \in DOMAIN map \cup {key} |-> IF k = key THEN CacheEntry(data, t, by) ELSE map[k]]

\* ------------------------------------------------------- the retry loop
\* The call has ended: the promise makeRequest returned is settled.
\* Its locals are gone; what it did stays on record until the slot is reused.
Settle(call, result) ==
    [call EXCEPT !.pc = "done", !.result = result,
                 !.retryDelay = InitialRetryDelay, !.lastError = NoError,
                 !.wakeAt = 0, !.sleptAt = 0]

\* A variant in which a GET joins a fetch already in flight for its key.
FetchJoinsInFlight(call) ==
    IF call.method = "GET" /\ \E d \in Slots : /\ calls[d].pc = "fetching" /\ calls[d].method = "GET"
                                                /\ KeyOf(calls[d]) = KeyOf(call)
    THEN [call EXCEPT !.pc = "fetching", !.wakeAt = 0, !.sleptAt = 0]
    ELSE [call EXCEPT !.pc = "fetching", !.netCalls = @ + 1, !.wakeAt = 0, !.sleptAt = 0]
\* `await fetch(url, options)`: one network call goes out.
Fetch(call) == [call EXCEPT !.pc = "fetching", !.netCalls = @ + 1, !.wakeAt = 0, !.sleptAt = 0]

\* A variant whose loop runs while attempt < maxRetries.
LoopOffByOne(call) ==
    IF call.attempt < call.maxRetries THEN Fetch(call)
    ELSE Settle(call, Thrown(IF call.lastError # NoError THEN call.lastError
                             ELSE ApiErr("UNKNOWN_ERROR", "An unknown error occurred", NoStatus)))
\* The head of `for (attempt...; attempt <= maxRetries; ...)`, and the
\* fallback throw after the loop.
Loop(call) ==
    IF call.attempt <= call.maxRetries THEN Fetch(call)
    ELSE Settle(call, Thrown(IF call.lastError # NoError THEN call.lastError
                             ELSE ApiErr("UNKNOWN_ERROR", "An unknown error occurred", NoStatus)))

\* A variant that takes a 5xx for retryable, as it does 429 and 503.
IsTerminalBelow500(error) ==
    error.error # NoField /\ error.error # "" /\ error.status < 500 /\ error.status # 429
\* (error as ApiError).error && status !== 429 && status !== 503
IsTerminalApiError(error) ==
    error.error # NoField /\ error.error # "" /\ error.status \notin RateLimitStatuses

\* A variant that keeps the lastError of an earlier attempt, when there is
\* one, over what was just thrown.
CatchKeepsEarlierError(call, error) ==
    IF IsTerminalApiError(error) THEN Settle(call, Thrown(error))
    ELSE LET c1 == [call EXCEPT !.lastError = IF @ = NoError THEN error ELSE @]
         IN  IF c1.attempt = c1.maxRetries
             THEN Settle(c1, Thrown(c1.lastError))
             ELSE Loop([c1 EXCEPT !.attempt = @ + 1])
\* A variant that goes round again without counting the attempt.
CatchNeverCounts(call, error) ==
    IF IsTerminalApiError(error) THEN Settle(call, Thrown(error))
    ELSE Loop([call EXCEPT !.lastError = error])
\* The catch block: what was thrown inside the try is rethrown at once, or
\* becomes lastError and, unless this was the last attempt, the loop goes on
\* with attempt + 1.
Catch(call, error) ==
    IF IsTerminalApiError(error) THEN Settle(call, Thrown(error))
    ELSE LET c1 == [call EXCEPT !.lastError = error]
         IN  IF c1.attempt = c1.maxRetries
             THEN Settle(c1, Thrown(IF c1.lastError = NoError
                                    THEN ApiErr("NETWORK_ERROR", "Failed to connect to BambooHR API: " \o error.message, NoStatus)
                                    ELSE c1.lastError))
             ELSE Loop([c1 EXCEPT !.attempt = @ + 1])

\* A variant without the 404 branch.
TerminalMessageNo404(response) ==
    CASE response.status = 401 -> MsgAuth
      [] response.status = 403 -> MsgForbidden
      [] OTHER -> ErrorMessage(response)
\* The message a terminal status gets in place of the upstream one.
TerminalMessage(response) ==
    CASE response.status = 401 -> MsgAuth
      [] response.status = 403 -> MsgForbidden
      [] response.status = 404 -> MsgNotFound
      [] OTHER -> ErrorMessage(response)

\* `if (!response.ok) { ... }`: a 429/503 with budget left starts a sleep,
\* anything else throws into the catch block.
OnErrorResponse(call, response, t) ==
    LET error == ApiErr("API_ERROR", ErrorMessage(response), response.status)
    IN  IF response.status \in RateLimitStatuses
        THEN LET waitTime == WaitTime(response.retryAfter, call.retryDelay)
             IN  IF call.attempt < call.maxRetries
                 THEN [call EXCEPT
                         !.pc = "sleeping",
                         !.lastError = [error EXCEPT !.message = MsgRetrying(waitTime, call.attempt, call.maxRetries)],
                         !.wakeAt = t + TimerDelay(waitTime),
                         !.sleptAt = t,
                         !.sleeps = @ + 1,
                         !.rateLimited = TRUE]
                 ELSE Catch([call EXCEPT !.rateLimited = TRUE], [error EXCEPT !.message = MsgMaxRetries])
        ELSE Catch(call, [error EXCEPT !.message = TerminalMessage(response)])

\* A variant that goes by the content type alone, also for a 204.
OnOkResponseByContentType(call, response) ==
    IF response.contentType \in {NoHeader, ""}
    THEN Settle(call, Returned(EmptyObject))
    ELSE [call EXCEPT !.pc = "reading"]
\* A 2xx response: an empty result at once, or a body read to await.
\* `!contentType` holds of a header that is absent and of one that is empty.
OnOkResponse(call, response) ==
    IF response.contentType \in {NoHeader, ""} \/ response.status = 204
    THEN Settle(call, Returned(EmptyObject))
    ELSE [call EXCEPT !.pc = "reading"]

\* A variant that stores whatever body a GET has read, text as well as JSON.
StoreResponseAnyShape(map, call, json, body, t) ==
    IF WritesCache(call.method)
    THEN setCache(map, KeyOf(call), body, t, StoredBy(call))
    ELSE map
\* A variant that drops the key's entry when a POST, PUT or DELETE succeeds.
StoreOrInvalidate(map, call, json, body, t) ==
    IF json /\ WritesCache(call.method)
    THEN setCache(map, KeyOf(call), body, t, StoredBy(call))
    ELSE IF call.method = "GET" THEN map ELSE Remove(map, KeyOf(call))
\* The map after a 2xx body has been read: a parsed JSON body of a GET is
\* stored under the call's key, nothing else touches the map.
StoreResponse(map, call, json, body, t) ==
    IF json /\ WritesCache(call.method)
    THEN setCache(map, KeyOf(call), body, t, StoredBy(call))
    ELSE map

\* The history after slot c's call has become `next`.
Recorded(call, next) ==
    IF next.pc = "done" /\ next.result.state = "returned" /\ next.netCalls > 0
    THEN LET old == history[KeyOf(call)]
         IN  [history EXCEPT ![KeyOf(call)] =
                IF call.method # "GET"
                THEN [old EXCEPT !.mutated = (old.storedAt # Never)]
                ELSE IF next.stored
                     THEN [okNow |-> TRUE, storedAt |-> now, mutated |-> FALSE]
                     ELSE [old EXCEPT !.okNow = TRUE]]
    ELSE history

\* -------------------------------------------------------------- actions
\* makeRequest(endpoint, method, body, queryParams, maxRetries) is called and
\* runs to its first await: the cache lookup of a GET (which deletes a stale
\* entry), then either the cached value or the first fetch.
\* `from` is the record the call starts from: a free slot's, or one that
\* names the tool whose handler makes the call.
ClientCall(c, from, method, endpoint, queryParams, maxRetries) ==
    /\ calls[c].pc = "idle"
    /\ LET key == getCacheKey(endpoint, queryParams)
           looked == getFromCache(cache, key, now)
           gone == ReadsCache(method) /\ key \in DOMAIN cache /\ key \notin DOMAIN looked.cache
           call == [from EXCEPT !.method = method, !.endpoint = endpoint,
                                    !.queryParams = queryParams, !.maxRetries = maxRetries,
                                    !.evicted = gone]
       IN  /\ IF ReadsCache(method)
              THEN /\ cache' = looked.cache
                   /\ calls' = [calls EXCEPT ![c] =
                                   IF looked.value # JsonNull
                                   THEN Settle(call, Returned(looked.value))
                                   ELSE Loop(call)]
              ELSE /\ cache' = cache
                   /\ calls' = [calls EXCEPT ![c] = Loop(call)]
           /\ history' = IF gone
                         THEN [history EXCEPT ![key] = [@ EXCEPT !.storedAt = Never, !.mutated = FALSE]]
                         ELSE history
    /\ UNCHANGED <<now, ticks>>

\* A call of makeRequest by anything but a tool handler.
StartRequest(c, method, endpoint, queryParams, maxRetries) ==
    ClientCall(c, IdleCall, method, endpoint, queryParams, maxRetries)

\* fetch resolves with a response; the handler runs to its next await.
FetchResolve(c, response) ==
    /\ calls[c].pc = "fetching"
    /\ LET call == [calls[c] EXCEPT !.response = response]
           next == IF IsOk(response.status) THEN OnOkResponse(call, response)
                   ELSE OnErrorResponse(call, response, now)
       IN  /\ calls' = [calls EXCEPT ![c] = next]
           /\ history' = Recorded(call, next)
    /\ UNCHANGED <<cache, now, ticks>>

\* fetch rejects (DNS, connection refused, reset): the catch block runs.
FetchReject(c) ==
    /\ calls[c].pc = "fetching"
    /\ calls' = [calls EXCEPT ![c] =
                    Catch([calls[c] EXCEPT !.response = NoResponse, !.rejects = @ + 1], FetchFailed)]
    /\ UNCHANGED <<cache, now, ticks, history>>

\* `await response.json()` or `await response.text()` resolves: a JSON body
\* of a GET is stored, and the call returns the body.
BodyResolve(c, body) ==
    /\ calls[c].pc = "reading"
    /\ LET call == calls[c]
           json == IncludesJson(call.response.contentType)
       IN  /\ body \in (IF json THEN JsonBodies ELSE TextBodies)
           /\ cache' = StoreResponse(cache, call, json, body, now)
           /\ LET next == Settle([call EXCEPT !.stored = json /\ WritesCache(call.method)], Returned(body))
              IN  /\ calls' = [calls EXCEPT ![c] = next]
                  /\ history' = Recorded(call, next)
    /\ UNCHANGED <<now, ticks>>

\* The body read rejects (malformed JSON, stream error): the catch block runs.
BodyReject(c) ==
    /\ calls[c].pc = "reading"
    /\ calls' = [calls EXCEPT ![c] = Catch([calls[c] EXCEPT !.rejects = @ + 1], BodyFailed)]
    /\ UNCHANGED <<cache, now, ticks, history>>

\* A variant in which a GET looks its key up again when its timer fires.
WakeLooksUpAgain(c, jitter) ==
    /\ calls[c].pc = "sleeping"
    /\ now >= calls[c].wakeAt
    /\ LET looked == getFromCache(cache, KeyOf(calls[c]), now)
       IN  calls' = [calls EXCEPT ![c] =
                       IF calls[c].method = "GET" /\ looked.value # JsonNull
                       THEN Settle(calls[c], Returned(looked.value))
                       ELSE Loop([calls[c] EXCEPT !.retryDelay = NextRetryDelay(@, jitter),
                                                  !.attempt = @ + 1])]
    /\ UNCHANGED <<cache, now, ticks, history>>
\* The backoff timer fires: the delay for the next sleep is raised, and the
\* loop goes on with attempt + 1.
Wake(c, jitter) ==
    /\ calls[c].pc = "sleeping"
    /\ now >= calls[c].wakeAt
    /\ calls' = [calls EXCEPT ![c] =
                    Loop([calls[c] EXCEPT !.retryDelay = NextRetryDelay(@, jitter),
                                          !.attempt = @ + 1])]
    /\ UNCHANGED <<cache, now, ticks, history>>

\* ---------------------------------------------------------------- uploads
\* uploadFile and uploadPhoto: one POST each, outside makeRequest.
Uploads == {"uploadFile", "uploadPhoto"}

\* The characters of a string as one string.
RECURSIVE Text(_)
Text(chars) == IF chars = <<>> THEN "" ELSE Head(chars) \o Text(Tail(chars))

\* s.split(sep).pop(): the characters after the last separator, all of
\* them when there is none.
RECURSIVE LastSegment(_, _)
LastSegment(chars, sep) ==
    IF chars = <<>> THEN <<>>
    ELSE IF chars[Len(chars)] = sep THEN <<>>
    ELSE LastSegment(SubSeq(chars, 1, Len(chars) - 1), sep) \o <<chars[Len(chars)]>>

\* The Location header of a 2xx answer to uploadFile: absent, empty, a
\* path, a path that ends in a slash, an absolute URL.
NoLocation == Absent
Locations ==
    { NoLocation, Hdr(<<>>),
      Hdr(<<"/", "f", "i", "l", "e", "s", "/", "9", "8", "7">>),
      Hdr(<<"/", "f", "i", "l", "e", "s", "/", "9", "8", "7", "/">>),
      Hdr(<<"h", "t", "t", "p", "s", ":", "/", "/", "b", "/", "v", "1", "/", "f", "i", "l", "e", "s", "/", "7", "7">>) }
\* location ? location.split('/').pop() : undefined
FileId(location) ==
    IF Truthy(location) THEN Text(LastSegment(location.chars, "/")) ELSE "undefined"

\* A variant that takes the whole header for the id.
UploadValueWholeLocation(op, location) ==
    IF op = "uploadFile" THEN "{id:" \o Text(location.chars) \o "}" ELSE "undefined"
\* What an upload resolves to: { id: fileId } from uploadFile, nothing from
\* uploadPhoto.
UploadValue(op, location) == IF op = "uploadFile" THEN "{id:" \o FileId(location) \o "}" ELSE "undefined"

\* A variant that sends the POST again on a 429/503.
UploadOutcomeRetrying(call, response, location) ==
    IF IsOk(response.status) THEN Settle(call, Returned(UploadValue(call.op, location)))
    ELSE IF response.status \in RateLimitStatuses THEN [call EXCEPT !.netCalls = @ + 1]
    ELSE Settle(call, Thrown(ApiErr("API_ERROR", ErrorMessage(response), response.status)))
\* After `await fetch`: `if (!response.ok) throw {...}`, else the result.
UploadOutcome(call, response, location) ==
    IF IsOk(response.status) THEN Settle(call, Returned(UploadValue(call.op, location)))
    ELSE Settle(call, Thrown(ApiErr("API_ERROR", ErrorMessage(response), response.status)))

\* Buffer.from(fileData, 'base64'): four characters of the alphabet give
\* three bytes, a rest of three gives two, a rest of two gives one;
\* decoding ends at the padding.
Base64Alphabet ==
    << "A", "B", "C", "D", "E", "F", "G", "H", "I", "J", "K", "L", "M",
       "N", "O", "P", "Q", "R", "S", "T", "U", "V", "W", "X", "Y", "Z",
       "a", "b", "c", "d", "e", "f", "g", "h", "i", "j", "k", "l", "m",
       "n", "o", "p", "q", "r", "s", "t", "u", "v", "w", "x", "y", "z",
       "0", "1", "2", "3", "4", "5", "6", "7", "8", "9", "+", "/" >>
Sextet(ch) == (CHOOSE i \in 1..64 : Base64Alphabet[i] = ch) - 1
RECURSIVE Sextets(_)
Sextets(chars) ==
    IF chars = <<>> \/ Head(chars) = "=" THEN <<>>
    ELSE <<Sextet(Head(chars))>> \o Sextets(Tail(chars))
RECURSIVE BytesOf(_)
BytesOf(v) ==
    IF Len(v) >= 4
    THEN LET n == v[1] * 262144 + v[2] * 4096 + v[3] * 64 + v[4]
         IN  <<n \div 65536, (n \div 256) % 256, n % 256>> \o BytesOf(SubSeq(v, 5, Len(v)))
    ELSE IF Len(v) = 3
    THEN LET n == v[1] * 4096 + v[2] * 64 + v[3]
         IN  <<n \div 1024, (n \div 4) % 256>>
    ELSE IF Len(v) = 2
    THEN <<(v[1] * 64 + v[2]) \div 16>>
    ELSE <<>>
\* typeof fileData === 'string' ? Buffer.from(fileData, 'base64') : fileData
fileBuffer(fileData) ==
    IF fileData.type = "string" THEN BytesOf(Sextets(fileData.chars)) ELSE fileData.bytes

UpperCase ==
    << "A", "B", "C", "D", "E", "F", "G", "H", "I", "J", "K", "L", "M",
       "N", "O", "P", "Q", "R", "S", "T", "U", "V", "W", "X", "Y", "Z" >>
toLowerCase(chars) ==
    [i \in 1..Len(chars) |->
        IF \E j \in 1..26 : UpperCase[j] = chars[i]
        THEN Base64Alphabet[26 + (CHOOSE j \in 1..26 : UpperCase[j] = chars[i])]
        ELSE chars[i]]
\* fileName.split('.').pop()?.toLowerCase() || ''
extension(fileName) == Text(toLowerCase(LastSegment(fileName, ".")))

\* The entries of contentTypeMap.
KnownExtensions == {"pdf", "doc", "docx", "xls", "xlsx", "png", "jpg", "jpeg", "gif", "txt"}
contentTypeMap ==
    [ext \in KnownExtensions |->
        CASE ext = "pdf" -> "application/pdf"
          [] ext = "doc" -> "application/msword"
          [] ext = "docx" -> "application/vnd.openxmlformats-officedocument.wordprocessingml.document"
          [] ext = "xls" -> "application/vnd.ms-excel"
          [] ext = "xlsx" -> "application/vnd.openxmlformats-officedocument.spreadsheetml.sheet"
          [] ext = "png" -> "image/png"
          [] ext \in {"jpg", "jpeg"} -> "image/jpeg"
          [] ext = "gif" -> "image/gif"
          [] OTHER -> "text/plain"]
OctetStream == "application/octet-stream"
\* contentTypeMap[extension], as it appears in the template string.  The map
\* is an object literal, so the lookup also finds what every object
\* inherits: 'constructor' is the function Object, '__proto__' is
\* Object.prototype.  Anything else is undefined ("" here).
Lookup(ext) ==
    IF ext \in KnownExtensions THEN contentTypeMap[ext]
    ELSE IF ext = "constructor" THEN "function Object() { [native code] }"
    ELSE IF ext = "__proto__" THEN "[object Object]"
    ELSE ""
\* contentTypeMap[extension] || 'application/octet-stream'
fileContentType(fileName) ==
    IF Lookup(extension(fileName)) # "" THEN Lookup(extension(fileName)) ELSE OctetStream

\* `----BambooHRFormBoundary${Date.now()}`
boundary(t) == "----BambooHRFormBoundary" \o ToString(t)
CRLF == "\r\n"
Delimiter(b) == "--" \o b \o CRLF
FileDisposition(fileName) ==
    "Content-Disposition: form-data; name=\"file\"; filename=\"" \o Text(fileName) \o "\"" \o CRLF
CategoryDisposition == "Content-Disposition: form-data; name=\"category\"" \o CRLF \o CRLF
Closing(b) == "--" \o b \o "--" \o CRLF

\* `if (categoryId) { ... }`: the category part, for a categoryId that is
\* neither undefined nor empty.
categoryPart(b, categoryId) ==
    IF categoryId \notin {NoField, ""}
    THEN << Delimiter(b), CategoryDisposition, categoryId \o CRLF >>
    ELSE << >>

\* The body uploadFile sends.
fullBody(b, args) ==
    [ prefix |-> << Delimiter(b), FileDisposition(args.name),
                    "Content-Type: " \o fileContentType(args.name) \o CRLF \o CRLF >>,
      file |-> fileBuffer(args.data),
      suffix |-> <<CRLF>> \o categoryPart(b, args.category) \o <<Closing(b)>> ]
\* The body uploadPhoto sends: the image alone.
photoBody(args) == [NoBody EXCEPT !.file = fileBuffer(args.data)]

\* The arguments uploads are called with: a file as bytes and as base64
\* text; names with a known extension, in capitals, with an unknown
\* extension, without a dot, and with an extension every object has a
\* property for; no category, an empty one, category 42.
FileDatas == { BufferOf(<<37, 80, 68, 70>>), StringOf(<<"J", "V", "B", "E", "R", "g", "=", "=">>) }
FileNames ==
    { <<"r", "e", "p", "o", "r", "t", ".", "p", "d", "f">>,
      <<"A", ".", "P", "N", "G">>,
      <<"a", ".", "z", "i", "p">>,
      <<"p", "d", "f">>,
      <<"a", ".", "c", "o", "n", "s", "t", "r", "u", "c", "t", "o", "r">> }
CategoryIds == {NoField, "", "42"}
Files == { [data |-> d, name |-> n, category |-> k] : d \in FileDatas, n \in FileNames, k \in CategoryIds }
SampleFile == [data |-> BufferOf(<<37, 80, 68, 70>>), name |-> <<"a", ".", "z", "i", "p">>, category |-> NoField]

\* uploadFile(endpoint, ...) or uploadPhoto(endpoint, ...) is called and runs
\* to its `await fetch(url, { method: 'POST', ... })`.
StartUpload(c, op, endpoint, args) ==
    /\ calls[c].pc = "idle"
    /\ calls' = [calls EXCEPT ![c] =
                    [IdleCall EXCEPT !.pc = "uploading", !.op = op, !.method = "POST",
                                     !.endpoint = endpoint, !.netCalls = 1,
                                     !.upload = [args |-> args, boundary |-> boundary(now),
                                                 body |-> IF op = "uploadFile"
                                                          THEN fullBody(boundary(now), args)
                                                          ELSE photoBody(args),
                                                 location |-> Absent]]]
    /\ UNCHANGED <<cache, now, ticks, history>>

\* The POST of an upload is answered.
UploadResolve(c, response, location) ==
    /\ calls[c].pc = "uploading"
    /\ calls' = [calls EXCEPT ![c] =
                    UploadOutcome([calls[c] EXCEPT !.response = response, !.upload.location = location],
                                  response, location)]
    /\ UNCHANGED <<cache, now, ticks, history>>

\* The POST of an upload rejects: there is no catch, the rejection is the
\* caller's.
UploadReject(c) ==
    /\ calls[c].pc = "uploading"
    /\ calls' = [calls EXCEPT ![c] = Settle([calls[c] EXCEPT !.rejects = @ + 1], Thrown(FetchFailed))]
    /\ UNCHANGED <<cache, now, ticks, history>>

\* ---------------------------------------------------------------- reports
\* getReport(endpoint, format = 'json'): one GET outside makeRequest.
Formats == {"json", "xml", "csv"}

\* A variant that looks the endpoint up in the map first.
StartReportCached(c, endpoint, format) ==
    /\ calls[c].pc = "idle"
    /\ LET call == [IdleCall EXCEPT !.op = "getReport", !.method = "GET",
                                    !.endpoint = endpoint, !.format = format]
           looked == getFromCache(cache, KeyOf(call), now)
       IN  /\ cache' = looked.cache
           /\ calls' = [calls EXCEPT ![c] =
                           IF looked.value # JsonNull THEN Settle(call, Returned(looked.value))
                           ELSE [call EXCEPT !.pc = "reporting", !.netCalls = 1]]
    /\ UNCHANGED <<now, ticks, history>>
\* getReport is called and runs to `await fetch(url, { method: 'GET', headers })`.
StartReport(c, endpoint, format) ==
    /\ calls[c].pc = "idle"
    /\ calls' = [calls EXCEPT ![c] =
                    [IdleCall EXCEPT !.pc = "reporting", !.op = "getReport", !.method = "GET",
                                     !.endpoint = endpoint, !.format = format, !.netCalls = 1]]
    /\ UNCHANGED <<cache, now, ticks, history>>

\* The GET of a report is answered: `if (!response.ok) throw {...}`, else
\* the body is read, as JSON or as text by the format asked for.
ReportResolve(c, response) ==
    /\ calls[c].pc = "reporting"
    /\ calls' = [calls EXCEPT ![c] =
                    LET call == [calls[c] EXCEPT !.response = response]
                    IN  IF IsOk(response.status) THEN [call EXCEPT !.pc = "reportBody"]
                        ELSE Settle(call, Thrown(ApiErr("API_ERROR", ErrorMessage(response), response.status)))]
    /\ UNCHANGED <<cache, now, ticks, history>>

\* `return await response.json()` or `return await response.text()`.
ReportBody(c, body) ==
    /\ calls[c].pc = "reportBody"
    /\ body \in (IF calls[c].format = "json" THEN JsonBodies ELSE TextBodies)
    /\ calls' = [calls EXCEPT ![c] = Settle(calls[c], Returned(body))]
    /\ UNCHANGED <<cache, now, ticks, history>>

\* The fetch or the body read of a report rejects: there is no catch.
ReportReject(c) ==
    /\ calls[c].pc \in {"reporting", "reportBody"}
    /\ calls' = [calls EXCEPT ![c] =
                    Settle([calls[c] EXCEPT !.rejects = @ + 1],
                           Thrown(IF calls[c].pc = "reporting" THEN FetchFailed ELSE BodyFailed))]
    /\ UNCHANGED <<cache, now, ticks, history>>

\* ------------------------------------------------------------------ tools
\* The tool handlers that delete, and the two time-off handlers that update.
DeleteTools ==
    {"bamboohr_delete_employee_file", "bamboohr_delete_goal", "bamboohr_delete_training_record"}
ChangeStatusTool == "bamboohr_change_time_off_request_status"
AdjustBalanceTool == "bamboohr_adjust_time_off_balance"
Tools == DeleteTools \cup {ChangeStatusTool, AdjustBalanceTool}

ConfirmValues == {"undefined", "false", "true"}
Statuses == {"approved", "denied", "canceled"}
Notes == {NoField, "", "Insufficient coverage"}
Amounts == {-4, 0, 8}

\* The arguments a tool can be called with.  The delete tools declare
\* confirm: z.boolean(), so a call without it never reaches the handler; the
\* time-off tools declare no confirm at all, a caller may send one or not.
ToolParams(tool) ==
    IF tool \in DeleteTools
    THEN { [NoParams EXCEPT !.confirm = v] : v \in {"false", "true"} }
    ELSE IF tool = ChangeStatusTool
    THEN { [confirm |-> v, status |-> s, note |-> n, amount |-> 0] :
              v \in ConfirmValues, s \in Statuses, n \in Notes }
    ELSE { [confirm |-> v, status |-> "", note |-> "correction", amount |-> a] :
              v \in ConfirmValues, a \in Amounts }

MsgConfirm(tool) ==
    "Safety confirmation required. Set confirm: true to permanently delete this "
    \o (CASE tool = "bamboohr_delete_employee_file" -> "file"
          [] tool = "bamboohr_delete_goal" -> "goal"
          [] OTHER -> "training record")
    \o ". This action cannot be undone."
MsgNoteRequired == "A note is required when denying a time off request. Please provide a reason for the denial."

\* A variant in which the delete handlers have no safety check.
ToolRefusalUnchecked(tool, params) ==
    IF tool = ChangeStatusTool /\ params.status = "denied" /\ params.note \in {NoField, ""}
    THEN MsgNoteRequired
    ELSE ""
\* The check at the head of a handler: the text of the error result it
\* returns at once, or "" when it goes on to the client.
\*   delete tools:    if (!params.confirm)
\*   status change:   if (params.status === 'denied' && !params.note)
\*   balance:         no check
ToolRefusal(tool, params) ==
    IF tool \in DeleteTools /\ params.confirm # "true" THEN MsgConfirm(tool)
    ELSE IF tool = ChangeStatusTool /\ params.status = "denied" /\ params.note \in {NoField, ""}
    THEN MsgNoteRequired
    ELSE ""

\* client.delete(...) in the delete tools, client.put(...) in the others.
ToolMethod(tool) == IF tool \in DeleteTools THEN "DELETE" ELSE "PUT"

\* A tool handler is called and runs to its first await (inside the client)
\* or to its return.  The wrappers delete and put pass no queryParams and no
\* maxRetries.
CallTool(c, tool, params, endpoint) ==
    LET from == [IdleCall EXCEPT !.tool = tool, !.params = params]
    IN  IF ToolRefusal(tool, params) # ""
        THEN /\ calls[c].pc = "idle"
             /\ calls' = [calls EXCEPT ![c] = [from EXCEPT !.pc = "done", !.op = "none"]]
             /\ UNCHANGED <<cache, now, ticks, history>>
        ELSE ClientCall(c, from, ToolMethod(tool), endpoint, Undefined, DefaultMaxRetries)

\* formatError(error): `Error: ${message}`.
formatError(error) == "Error: " \o error.message

\* What the handler of an ended tool call returns: the refusal, the error
\* the client threw (caught and formatted), or the success text (whose ids
\* and JSON form are left out).
ToolResult(call) ==
    IF call.op = "none" THEN [isError |-> TRUE, text |-> ToolRefusal(call.tool, call.params)]
    ELSE IF call.result.state = "thrown" THEN [isError |-> TRUE, text |-> formatError(call.result.error)]
    ELSE [isError |-> FALSE, text |-> "Successfully " \o (IF call.method = "DELETE" THEN "deleted" ELSE "updated")]

\* ------------------------------------------------------------- pagination
\* A variant whose next page begins after the items returned.
createPaginationInfoByCount(total, count, offset, limit) ==
    LET has_more == offset + count < total
        result == [has_more |-> has_more, total |-> total, count |-> count, offset |-> offset]
    IN  IF has_more
        THEN [f \in DOMAIN result \cup {"next_offset"} |->
                 IF f = "next_offset" THEN offset + count ELSE result[f]]
        ELSE result
\* createPaginationInfo(total, count, offset, limit): the object it returns,
\* with the property next_offset only `if (has_more)`.
createPaginationInfo(total, count, offset, limit) ==
    LET has_more == offset + count < total
        result == [has_more |-> has_more, total |-> total, count |-> count, offset |-> offset]
    IN  IF has_more
        THEN [f \in DOMAIN result \cup {"next_offset"} |->
                 IF f = "next_offset" THEN offset + limit ELSE result[f]]
        ELSE result

\* createPaginationInfo is called and returns.
Paginate(c, total, count, offset, limit) ==
    /\ calls[c].pc = "idle"
    /\ calls' = [calls EXCEPT ![c] =
                    [IdleCall EXCEPT !.pc = "done", !.op = "createPaginationInfo",
                                     !.page = [total |-> total, count |-> count, offset |-> offset,
                                               limit |-> limit,
                                               info |-> createPaginationInfo(total, count, offset, limit)]]]
    /\ UNCHANGED <<cache, now, ticks, history>>

\* The caller has taken the result; the slot is free for another call.
Return(c) ==
    /\ calls[c].pc = "done"
    /\ calls' = [calls EXCEPT ![c] = IdleCall]
    /\ UNCHANGED <<cache, now, ticks, history>>

\* Time passes, up to the next moment that matters: a pending timer is due,
\* a cache entry is exactly TTL old, or 1 ms older than that.
TickTargets ==
    { cache[k].timestamp + cacheTTL + d : k \in DOMAIN cache, d \in {0, 1} } \cup { calls[c].wakeAt : c \in {x \in Slots : calls[x].pc = "sleeping"} }
Tick(t, bound) ==
    /\ ticks < bound
    /\ t > now
    /\ now' = t
    /\ ticks' = ticks + 1
    /\ history' = [k \in Keys |-> [history[k] EXCEPT !.okNow = FALSE]]
    /\ UNCHANGED <<cache, calls>>

\* The actions, over the slots and inputs a specification draws from.
Request(S, M, Q, B) ==
    \E c \in S, m \in M, e \in Endpoints, q \in Q, r \in B : StartRequest(c, m, e, q, r)
Answer(S, R) == \E c \in S, response \in R : FetchResolve(c, response)
Fail(S) == \E c \in S : FetchReject(c)
Body(S) == \E c \in S, body \in JsonBodies \cup TextBodies : BodyResolve(c, body)
BadBody(S) == \E c \in S : BodyReject(c)
Timer(S, J) == \E c \in S, j \in J : Wake(c, j)
Done(S) == \E c \in S : Return(c)
Clock(bound) == \E t \in TickTargets : Tick(t, bound)

\* The cache under sequential use: one call at a time, every method, two
\* keys, every shape of 2xx response, and calls that fail on a 404 or on a
\* rejected fetch or body read (retried once, at once).  No 429/503 is
\* answered here, so no call sleeps: the clock serves the entries' ages.
OneCall == {1}
CacheParams == { q \in QueryParamsSet : q = Undefined \/ Head(q.entries).k = "a" }
CacheBudgets == {1}
CacheResponses ==
    { r \in Responses :
        /\ r.status \in {200, 204, 404}
        /\ r.status = 204 => IncludesJson(r.contentType)
        /\ r.errorHeader = NoHeader }

Next ==
    \/ Request(OneCall, Methods, CacheParams, CacheBudgets)
    \/ Answer(OneCall, CacheResponses)
    \/ Fail(OneCall)
    \/ Body(OneCall)
    \/ BadBody(OneCall)
    \/ Done(OneCall)
    \/ Clock(MaxTicks)

Spec == Init /\ [][Next]_vars

\* The retry loop: one call at a time, every budget, and every response but
\* those with a JSON body (nothing is cached, so the clock serves the timers).
RetryMethods == {"GET", "POST"}
RetryParams == {Undefined}
RetryResponses == { r \in Responses : ~IncludesJson(r.contentType) }

NextRetry ==
    \/ Request(OneCall, RetryMethods, RetryParams, Budgets)
    \/ Answer(OneCall, RetryResponses)
    \/ Fail(OneCall)
    \/ Body(OneCall)
    \/ BadBody(OneCall)
    \/ Timer(OneCall, Jitters)
    \/ Done(OneCall)
    \/ Clock(MaxRetryTicks)

SpecRetry == Init /\ [][NextRetry]_vars

\* The backoff: one GET with one retry or with two more than the default,
\* answered 429/503 with no Retry-After header or with Retry-After: 0, or 204.
BackoffBudgets == {1, DefaultMaxRetries + 2}
BackoffResponses ==
    { r \in Responses :
        \/ r.status \in RateLimitStatuses /\ r.retryAfter \in {Absent, Hdr(<<"0">>)} /\ r.errorHeader = NoHeader
        \/ r.status = 204 /\ r.contentType = NoHeader }

NextBackoff ==
    \/ Request(OneCall, {"GET"}, RetryParams, BackoffBudgets)
    \/ Answer(OneCall, BackoffResponses)
    \/ Timer(OneCall, Jitters)
    \/ Done(OneCall)
    \/ Clock(MaxBackoffTicks)

SpecBackoff == Init /\ [][NextBackoff]_vars

\* Concurrent use: every slot may hold a call at once, all of them GETs for
\* one key with one retry, answered 200 with a JSON body or 429.
ConcurrentResponses ==
    { r \in Responses :
        \/ r.status = 200 /\ IncludesJson(r.contentType)
        \/ r.status = 429 /\ r.retryAfter = Absent /\ r.errorHeader = NoHeader }

NextConcurrent ==
    \/ Request(Slots, {"GET"}, RetryParams, CacheBudgets)
    \/ Answer(Slots, ConcurrentResponses)
    \/ Body(Slots)
    \/ Timer(Slots, {0})
    \/ Done(Slots)
    \/ Clock(MaxConcurrentTicks)

SpecConcurrent == Init /\ [][NextConcurrent]_vars

\* Uploads next to reads: one call at a time, a GET answered 200 with a JSON
\* body (so that the map has entries) or an upload answered with any status.
UploadGetResponses == { r \in Responses : r.status = 200 /\ IncludesJson(r.contentType) }
UploadResponses ==
    { r \in Responses : r.contentType = NoHeader /\ r.retryAfter \in {Absent, Hdr(<<"2">>)} }

NextUpload ==
    \/ Request(OneCall, {"GET"}, CacheParams, CacheBudgets)
    \/ Answer(OneCall, UploadGetResponses)
    \/ Body(OneCall)
    \/ \E c \in OneCall, op \in Uploads, e \in Endpoints : StartUpload(c, op, e, SampleFile)
    \/ \E c \in OneCall, r \in UploadResponses, l \in Locations : UploadResolve(c, r, l)
    \/ \E c \in OneCall : UploadReject(c)
    \/ Done(OneCall)

SpecUpload == Init /\ [][NextUpload]_vars

\* The tools: one call at a time, a read by the client itself or one of the
\* five tools with any arguments, answered 200 (JSON), 204, 403 or 404, or
\* not at all.
ToolResponses ==
    { r \in Responses : /\ r.status \in {200, 204, 403, 404}
                        /\ r.contentType # "text/plain" /\ r.errorHeader = NoHeader }

Use(S) == \E c \in S, tool \in Tools, e \in Endpoints : \E p \in ToolParams(tool) : CallTool(c, tool, p, e)

NextTools ==
    \/ Request(OneCall, {"GET"}, RetryParams, CacheBudgets)
    \/ Use(OneCall)
    \/ Answer(OneCall, ToolResponses)
    \/ Fail(OneCall)
    \/ Body(OneCall)
    \/ Done(OneCall)

SpecTools == Init /\ [][NextTools]_vars

\* The shapes of a result: one call at a time, a GET or a POST, answered 200
\* or 204 with every content type (none, empty, JSON, text) or 404.
ShapeMethods == {"GET", "POST"}
ShapeResponses ==
    { Response(st, ct, Absent, NoHeader) : st \in OkStatuses, ct \in ContentTypes \cup {""} }
    \cup { Response(404, NoHeader, Absent, NoHeader) }

NextShapes ==
    \/ Request(OneCall, ShapeMethods, CacheParams, CacheBudgets)
    \/ Answer(OneCall, ShapeResponses)
    \/ Fail(OneCall)
    \/ Body(OneCall)
    \/ BadBody(OneCall)
    \/ Done(OneCall)

SpecShapes == Init /\ [][NextShapes]_vars

\* The shapes of a result next to the map: several GETs for one key, begun
\* in any order and never retried, each answered 200 or 204 with every
\* content type. The clock stands still, so no entry grows stale.
ShapeOkResponses == { r \in ShapeResponses : IsOk(r.status) }

NextShapeCache ==
    \/ Request(Slots, {"GET"}, RetryParams, {0})
    \/ Answer(Slots, ShapeOkResponses)
    \/ Body(Slots)
    \/ Done(Slots)

SpecShapeCache == Init /\ [][NextShapeCache]_vars

\* The bodies of uploads: one upload at a time, with every file, answered
\* 200 or 404, or not at all.
MultipartResponses == { r \in UploadResponses : r.status \in {200, 404} /\ r.retryAfter = Absent /\ r.errorHeader = NoHeader }

NextMultipart ==
    \/ \E c \in OneCall, op \in Uploads, e \in Endpoints, a \in Files : StartUpload(c, op, e, a)
    \/ \E c \in OneCall, r \in MultipartResponses, l \in Locations : UploadResolve(c, r, l)
    \/ \E c \in OneCall : UploadReject(c)
    \/ Done(OneCall)

SpecMultipart == Init /\ [][NextMultipart]_vars

\* Pagination: every total, count and offset up to MaxTotal, every limit
\* from 1 to MaxTotal.
NextPagination ==
    \/ \E c \in OneCall, total \in 0..MaxTotal, count \in 0..MaxTotal,
          offset \in 0..MaxTotal, limit \in 1..MaxTotal : Paginate(c, total, count, offset, limit)
    \/ Done(OneCall)

SpecPagination == Init /\ [][NextPagination]_vars

\* The retry loop with fairness: a fetch in flight is answered or rejects, a
\* body being read arrives or fails, time passes while a call sleeps and a
\* due timer fires.  A call starts only while the clock can still advance
\* once for each retry it may make.
LiveResponses ==
    { r \in RetryResponses : r.errorHeader = NoHeader /\ r.retryAfter \in {Absent, Hdr(<<"2">>)} }
NextLive ==
    \/ \E c \in OneCall, m \in RetryMethods, e \in Endpoints, r \in Budgets :
          ticks + r <= MaxLiveTicks /\ StartRequest(c, m, e, Undefined, r)
    \/ Answer(OneCall, LiveResponses)
    \/ Fail(OneCall)
    \/ Body(OneCall)
    \/ BadBody(OneCall)
    \/ Timer(OneCall, Jitters)
    \/ Done(OneCall)
    \/ Clock(MaxLiveTicks)

SpecLive ==
    /\ Init /\ [][NextLive]_vars
    /\ WF_vars(Answer(OneCall, LiveResponses) \/ Fail(OneCall))
    /\ WF_vars(Body(OneCall) \/ BadBody(OneCall))
    /\ WF_vars(Timer(OneCall, Jitters))
    /\ WF_vars(Clock(MaxLiveTicks))

\* Reports next to reads: one call at a time, a GET through makeRequest
\* answered 200 with a JSON body (so that the map has entries), or a report
\* in any format answered with any status, or not at all.
NextReport ==
    \/ Request(OneCall, {"GET"}, CacheParams, CacheBudgets)
    \/ Answer(OneCall, UploadGetResponses)
    \/ Body(OneCall)
    \/ \E c \in OneCall, e \in Endpoints, f \in Formats : StartReport(c, e, f)
    \/ \E c \in OneCall, r \in UploadResponses : ReportResolve(c, r)
    \/ \E c \in OneCall, body \in JsonBodies \cup TextBodies : ReportBody(c, body)
    \/ \E c \in OneCall : ReportReject(c)
    \/ Done(OneCall)

SpecReport == Init /\ [][NextReport]_vars

\* Everything that could touch the map: one call at a time; GETs and POSTs
\* through makeRequest, without retries, for one endpoint with the same two
\* query parameters in either order, answered 200 with JSON or 404 or not at
\* all; uploads; reports; and the clock.
FrameParams == QueryParamsSet \ {Undefined}
FrameResponses ==
    { r \in UploadResponses : r.status \in {200, 404} /\ r.retryAfter = Absent /\ r.errorHeader = NoHeader }
    \cup { r \in UploadGetResponses : r.contentType = "application/json; charset=utf-8" }

NextFrame ==
    \/ Request(OneCall, {"GET", "POST"}, FrameParams, {0})
    \/ Answer(OneCall, FrameResponses)
    \/ Fail(OneCall)
    \/ Body(OneCall)
    \/ BadBody(OneCall)
    \/ \E c \in OneCall, e \in Endpoints : StartUpload(c, "uploadFile", e, SampleFile)
    \/ \E c \in OneCall, r \in FrameResponses : UploadResolve(c, r, NoLocation)
    \/ \E c \in OneCall : UploadReject(c)
    \/ \E c \in OneCall, e \in Endpoints : StartReport(c, e, "json")
    \/ \E c \in OneCall, r \in FrameResponses : ReportResolve(c, r)
    \/ \E c \in OneCall, body \in JsonBodies : ReportBody(c, body)
    \/ \E c \in OneCall : ReportReject(c)
    \/ Done(OneCall)
    \/ Clock(MaxTicks)

SpecFrame == Init /\ [][NextFrame]_vars

TypeOK ==
    /\ now >= 0
    /\ ticks \in 0..(MaxTicks + MaxRetryTicks + MaxBackoffTicks + MaxConcurrentTicks + MaxLiveTicks)
    /\ DOMAIN cache \subseteq Keys
    /\ \A c \in Slots : calls[c].pc \in {"idle", "fetching", "reading", "sleeping", "uploading", "reporting", "reportBody", "done"}

\* ------------------------------------------------------------ properties
\* Slot c's call begins in this step, as a GET.
StartsGet(c) == calls[c].pc = "idle" /\ calls'[c].pc # "idle" /\ calls'[c].method = "GET"

\* Slot c's call, beginning in this step, returns the value stored under k
\* at once: no fetch, and the map is left as it was.
ServedFromCache(c, k) ==
    /\ k \in DOMAIN cache
    /\ calls'[c].pc = "done"
    /\ calls'[c].result = Returned(cache[k].data)
    /\ calls'[c].netCalls = 0
    /\ cache' = cache

\* Slot c's call ends in this step, through a throw or through a return.
Throws(c) == calls[c].pc \notin {"idle", "done"} /\ calls'[c].pc = "done" /\ calls'[c].result.state = "thrown"
Returns(c) == calls[c].pc \notin {"idle", "done"} /\ calls'[c].pc = "done" /\ calls'[c].result.state = "returned"

\* C1 (as stated): when a GET for a key has returned a response from the
\* network and an identical GET begins no more than cacheTTL later (here:
\* before the clock has moved at all), the second GET returns the stored
\* response and sends no request.
C1_AnySuccessServed ==
    [][\A c \in Slots : StartsGet(c) =>
         LET k == KeyOf(calls'[c])
         IN  history[k].okNow => ServedFromCache(c, k)]_vars

\* C1 (amended): when a GET for a key has been answered 2xx with a JSON body
\* that was parsed and stored, and an identical GET begins no more than
\* cacheTTL after that store, the entry stored then is still in the map, and
\* unless its value is null the second GET returns that value and sends no
\* request.
C1_StoredJsonServed ==
    [][\A c \in Slots : StartsGet(c) =>
         LET k == KeyOf(calls'[c])
         IN  (history[k].storedAt # Never /\ now - history[k].storedAt <= cacheTTL)
                => /\ k \in DOMAIN cache
                   /\ cache[k].timestamp = history[k].storedAt
                   /\ cache[k].data # JsonNull => ServedFromCache(c, k)]_vars

\* A GET has been served from an entry that is exactly cacheTTL old.
C1_Witness ==
    \E c \in Slots :
        /\ calls[c].pc = "done" /\ calls[c].method = "GET" /\ calls[c].netCalls = 0
        /\ KeyOf(calls[c]) \in DOMAIN cache
        /\ calls[c].result = Returned(cache[KeyOf(calls[c])].data)
        /\ now - history[KeyOf(calls[c])].storedAt = cacheTTL

\* C2: no step of a POST, PUT or DELETE call changes the map, and such a
\* call, whatever the map holds, begins with a fetch.
C2_MutationsBypassCache ==
    [][\A c \in Slots :
         (calls'[c] # calls[c] /\ (IF calls[c].pc = "idle" THEN calls'[c].method ELSE calls[c].method) \in Mutations)
            => /\ cache' = cache
               /\ calls[c].pc = "idle" => (calls'[c].pc = "fetching" /\ calls'[c].netCalls = 1)]_vars

\* A POST, PUT or DELETE has returned a JSON body from the network while the
\* map holds another, fresh value under the same key.
C2_Witness ==
    \E c \in Slots :
        /\ calls[c].pc = "done" /\ calls[c].method \in Mutations
        /\ calls[c].netCalls >= 1 /\ calls[c].result.state = "returned"
        /\ calls[c].result.value \in JsonBodies \ {JsonNull}
        /\ KeyOf(calls[c]) \in DOMAIN cache
        /\ ~IsStale(cache[KeyOf(calls[c])], now)
        /\ cache[KeyOf(calls[c])].data \notin {JsonNull, calls[c].result.value}

\* C3: a POST, PUT or DELETE that returns leaves the map unchanged; and a
\* GET that begins after such a call has returned, for a key whose value was
\* stored before it and no more than cacheTTL ago, finds the entry as it was
\* stored and (its value not being null, which a lookup takes for a miss)
\* returns that value without a fetch.
C3_MutationKeepsEntries ==
    [][\A c \in Slots :
         /\ (Returns(c) /\ calls[c].method \in Mutations) => cache' = cache
         /\ StartsGet(c) =>
              LET k == KeyOf(calls'[c])
              IN  (history[k].mutated /\ now - history[k].storedAt <= cacheTTL)
                     => /\ k \in DOMAIN cache
                        /\ cache[k].timestamp = history[k].storedAt
                        /\ cache[k].data # JsonNull => ServedFromCache(c, k)]_vars

\* A GET has been served from the map after a POST, PUT or DELETE for the
\* same key returned.
C3_Witness ==
    \E c \in Slots :
        /\ calls[c].pc = "done" /\ calls[c].method = "GET" /\ calls[c].netCalls = 0
        /\ history[KeyOf(calls[c])].mutated
        /\ KeyOf(calls[c]) \in DOMAIN cache
        /\ calls[c].result = Returned(cache[KeyOf(calls[c])].data)

\* C4: a GET that begins more than cacheTTL after the value for its key was
\* stored does not return it: the entry is gone from the map after the
\* lookup, and the call sends a request.
C4_ExpiredEntryRefetched ==
    [][\A c \in Slots : StartsGet(c) =>
         LET k == KeyOf(calls'[c])
         IN  (history[k].storedAt # Never /\ now - history[k].storedAt > cacheTTL)
                => /\ k \notin DOMAIN cache'
                   /\ calls'[c].pc = "fetching"
                   /\ calls'[c].netCalls = 1]_vars

\* A GET is fetching, 1 ms after the value stored for its key went stale,
\* and the entry is gone.
C4_Witness ==
    \E c \in Slots :
        /\ calls[c].pc = "fetching" /\ calls[c].method = "GET" /\ calls[c].attempt = 0
        /\ calls[c].evicted
        /\ now = cacheTTL + 1
        /\ KeyOf(calls[c]) \notin DOMAIN cache

\* C5: an entry appears in the map, or changes, only in the step in which a
\* GET for exactly that key, answered 2xx, returns the body it read: the
\* entry holds that body and the time of the step.  A step in which a call
\* throws changes no entry.
C5_EntriesFromOkGets ==
    [][/\ \A k \in DOMAIN cache' :
            (k \notin DOMAIN cache \/ cache'[k] # cache[k])
               => \E c \in Slots :
                     /\ Returns(c) /\ calls[c].pc = "reading"
                     /\ calls[c].method = "GET" /\ KeyOf(calls[c]) = k
                     /\ IsOk(calls[c].response.status)
                     /\ cache'[k].data = calls'[c].result.value
                     /\ cache'[k].timestamp = now
                     /\ cache'[k].by = StoredBy(calls[c])
       /\ \A c \in Slots : Throws(c) => (cache' = cache /\ ~calls'[c].stored)]_vars

\* A GET has thrown after a request, the map holds what another GET stored,
\* and nothing under the key of the GET that threw.
C5_Witness ==
    \E c \in Slots :
        /\ calls[c].pc = "done" /\ calls[c].method = "GET" /\ calls[c].netCalls >= 1
        /\ calls[c].result.state = "thrown"
        /\ cache # EmptyMap
        /\ KeyOf(calls[c]) \notin DOMAIN cache

\* The record makeRequest throws for a non-2xx response when no retry is left
\* (maxRetries = 0).
Raised(response) ==
    OnErrorResponse([IdleCall EXCEPT !.pc = "fetching", !.response = response], response, 0).result.error

ErrorResponses == { r \in Responses : ~IsOk(r.status) }

\* C6: a call whose last response was a 429 or 503 and that has ended has
\* thrown the rate-limit record with that status, after maxRetries + 1
\* fetches, and (no fetch having rejected) after maxRetries sleeps; a call
\* never sends more than maxRetries + 1 requests.
C6_RateLimitExhausted ==
    \A c \in Slots :
        /\ calls[c].netCalls <= calls[c].maxRetries + 1
        /\ (calls[c].pc = "done" /\ calls[c].response.status \in RateLimitStatuses)
              => /\ calls[c].result = Thrown(ApiErr("API_ERROR", MsgMaxRetries, calls[c].response.status))
                 /\ calls[c].netCalls = calls[c].maxRetries + 1
                 /\ calls[c].rejects = 0 => calls[c].sleeps = calls[c].maxRetries

\* A call with the default budget has ended on its fourth 429/503, after
\* three sleeps.
C6_Witness ==
    \E c \in Slots :
        /\ calls[c].pc = "done" /\ calls[c].maxRetries = DefaultMaxRetries
        /\ calls[c].response.status \in RateLimitStatuses
        /\ calls[c].rejects = 0 /\ calls[c].netCalls = DefaultMaxRetries + 1
        /\ calls[c].sleeps = DefaultMaxRetries
        /\ calls[c].result.state = "thrown"

C8_TerminalStatusFailsAtOnce ==
    \A c \in Slots :
        (calls[c].response # NoResponse /\ ~IsOk(calls[c].response.status)
           /\ calls[c].response.status \notin RateLimitStatuses)
          => /\ calls[c].pc = "done"
             /\ calls[c].result.state = "thrown"
             /\ calls[c].result.error.error = "API_ERROR"
             /\ calls[c].result.error.status = calls[c].response.status
             /\ calls[c].result.error.message = TerminalMessage(calls[c].response)
             /\ (~calls[c].rateLimited /\ calls[c].rejects = 0)
                   => (calls[c].netCalls = 1 /\ calls[c].sleeps = 0)

\* A call with three retries left has thrown on a first answer of 500.
C8_Witness ==
    \E c \in Slots :
        /\ calls[c].pc = "done" /\ calls[c].maxRetries = DefaultMaxRetries
        /\ calls[c].response.status = 500
        /\ calls[c].netCalls = 1 /\ calls[c].sleeps = 0
        /\ calls[c].result.error.status = 500

\* C9: a call whose first fetch was rejected, with no 429/503 before it, has
\* ended after that one fetch, with a record of kind NETWORK_ERROR.
C9_FirstTransportFailureSurfaced ==
    \A c \in Slots :
        (calls[c].rejects = 1 /\ calls[c].response = NoResponse /\ ~calls[c].rateLimited)
          => /\ calls[c].pc = "done"
             /\ calls[c].netCalls = 1
             /\ calls[c].result.state = "thrown"
             /\ calls[c].result.error.error = "NETWORK_ERROR"

\* C10 (as stated): a call answered 404 has thrown, after one request when
\* that was its first answer, a record whose kind no other non-2xx answer
\* gets.
C10_NotFoundKind ==
    \A c \in Slots :
        calls[c].response.status = 404
          => /\ calls[c].pc = "done"
             /\ calls[c].result.state = "thrown"
             /\ (~calls[c].rateLimited /\ calls[c].rejects = 0) => calls[c].netCalls = 1
             /\ \A r \in ErrorResponses :
                   r.status # 404 => Raised(r).error # calls[c].result.error.error

\* C10 (amended): a call answered 404 has thrown, with no fetch after the
\* 404 (after one request when that was its first answer), the record
\* {API_ERROR, "Resource not found. ...", 404}; every other non-2xx answer
\* gets a record of the same kind API_ERROR, with another status and another
\* message.
C10_NotFoundByStatusAndMessage ==
    \A c \in Slots :
        calls[c].response.status = 404
          => /\ calls[c].pc = "done"
             /\ calls[c].result = Thrown(ApiErr("API_ERROR", MsgNotFound, 404))
             /\ (~calls[c].rateLimited /\ calls[c].rejects = 0)
                   => (calls[c].netCalls = 1 /\ calls[c].sleeps = 0)
             /\ \A r \in ErrorResponses :
                   r.status # 404 => /\ Raised(r).error = calls[c].result.error.error
                                     /\ Raised(r).status # calls[c].result.error.status
                                     /\ Raised(r).message # calls[c].result.error.message

\* A call with three retries left has thrown on a first answer of 404 that
\* carried an upstream error message.
C10_Witness ==
    \E c \in Slots :
        /\ calls[c].pc = "done" /\ calls[c].maxRetries = DefaultMaxRetries
        /\ calls[c].response.status = 404 /\ calls[c].response.errorHeader # NoHeader
        /\ calls[c].netCalls = 1
        /\ calls[c].result.error.message = MsgNotFound

\* The call in slot c has ended by a throw on its last attempt, having had
\* at least one retry to spend.
Exhausted(c) ==
    /\ calls[c].pc = "done" /\ calls[c].result.state = "thrown"
    /\ calls[c].maxRetries > 0 /\ calls[c].attempt = calls[c].maxRetries

\* "HTTP <status>: <statusText>"
HttpStatusLine(response) == "HTTP " \o ToString(response.status) \o ": " \o StatusText(response.status)

\* C11 (as stated): a call that has spent its retries and ended on a 429/503
\* throws a record with the status and the upstream message of that last
\* response.
C11_LastUpstreamErrorSurfaced ==
    \A c \in Slots :
        (Exhausted(c) /\ calls[c].response.status \in RateLimitStatuses)
          => /\ calls[c].result.error.status = calls[c].response.status
             /\ calls[c].result.error.message =
                   (IF calls[c].response.errorHeader \notin {NoHeader, ""}
                    THEN calls[c].response.errorHeader
                    ELSE HttpStatusLine(calls[c].response))

\* C11 (amended): a call that has spent its retries throws what its last
\* attempt raised, never the record of an earlier attempt: after a 429/503
\* the record {API_ERROR, the fixed maximum-retries message, the status of
\* that last response}, the upstream message being dropped; after a rejected
\* fetch or body read the error that rejection carried.
C11_LastAttemptErrorSurfaced ==
    \A c \in Slots :
        Exhausted(c)
          => /\ calls[c].response.status \in RateLimitStatuses
                  => calls[c].result.error = ApiErr("API_ERROR", MsgMaxRetries, calls[c].response.status)
             /\ calls[c].response = NoResponse => calls[c].result.error = FetchFailed
             /\ IsOk(calls[c].response.status) => calls[c].result.error = BodyFailed

\* A call with three retries has ended on a last 503 that carried an
\* upstream message, after 429/503 answers and three sleeps.
C11_Witness ==
    \E c \in Slots :
        /\ Exhausted(c) /\ calls[c].maxRetries = DefaultMaxRetries
        /\ calls[c].sleeps = DefaultMaxRetries
        /\ calls[c].response.status = 503
        /\ calls[c].response.errorHeader = "Employee is locked"
        /\ calls[c].result.error.status = 503
        /\ calls[c].result.error.message = MsgMaxRetries

\* C12 (as stated): the record thrown for a non-2xx response has the value
\* of X-BambooHR-Error-Message for its message when the header is present,
\* and "HTTP <status>: <statusText>" otherwise.
C12_UpstreamMessageAlways ==
    \A c \in Slots :
        (calls[c].pc = "done" /\ calls[c].response # NoResponse /\ ~IsOk(calls[c].response.status))
          => calls[c].result.error.message =
                (IF calls[c].response.errorHeader # NoHeader
                 THEN calls[c].response.errorHeader
                 ELSE HttpStatusLine(calls[c].response))

\* C12 (amended): the record thrown for a non-2xx response whose status is
\* none of 401, 403, 404, 429, 503 has the value of X-BambooHR-Error-Message
\* for its message when the header is present and not empty, and
\* "HTTP <status>: <statusText>" otherwise; for 401, 403 and 404 the message
\* is the fixed text of that status, for 429 and 503 the fixed
\* maximum-retries text, whatever the header says.
C12_UpstreamMessageForOtherStatuses ==
    \A c \in Slots :
        (calls[c].pc = "done" /\ calls[c].response # NoResponse /\ ~IsOk(calls[c].response.status))
          => calls[c].result.error.message =
                (CASE calls[c].response.status = 401 -> MsgAuth
                   [] calls[c].response.status = 403 -> MsgForbidden
                   [] calls[c].response.status = 404 -> MsgNotFound
                   [] calls[c].response.status \in RateLimitStatuses -> MsgMaxRetries
                   [] OTHER -> IF calls[c].response.errorHeader \notin {NoHeader, ""}
                               THEN calls[c].response.errorHeader
                               ELSE HttpStatusLine(calls[c].response))

\* A call answered 500 with an upstream message has thrown that message.
C12_Witness ==
    \E c \in Slots :
        /\ calls[c].pc = "done" /\ calls[c].response.status = 500
        /\ calls[c].response.errorHeader = "Employee is locked"
        /\ calls[c].result.error.message = "Employee is locked"

\* C13: a sleep begun on a 429/503 without a Retry-After header lasts the
\* backoff delay of the moment: 1000 ms when it is the call's first sleep,
\* never more than 8000 ms; and each time a sleep ends the delay becomes at
\* least its double and less than its double plus 1000 ms, or 8000 ms when
\* that would be more.
C13_BackoffDelays ==
    [][\A c \in Slots :
         /\ (calls[c].pc = "fetching" /\ calls'[c].pc = "sleeping" /\ ~Truthy(calls'[c].response.retryAfter))
               => /\ calls'[c].wakeAt - now = calls[c].retryDelay
                  /\ calls'[c].wakeAt - now <= 8000
                  /\ calls[c].sleeps = 0 => calls'[c].wakeAt - now = 1000
         /\ (calls[c].pc = "sleeping" /\ calls'[c].pc = "fetching")
               => /\ calls'[c].retryDelay <= 8000
                  /\ calls'[c].retryDelay < 2 * calls[c].retryDelay + 1000
                  /\ 2 * calls[c].retryDelay <= 8000 => calls'[c].retryDelay >= 2 * calls[c].retryDelay
                  /\ 2 * calls[c].retryDelay > 8000 => calls'[c].retryDelay = 8000]_vars

\* A call is in its fifth sleep, of 8000 ms, after a 429/503 without a
\* Retry-After header.
C13_Witness ==
    \E c \in Slots :
        /\ calls[c].pc = "sleeping" /\ calls[c].sleeps = 5
        /\ ~Truthy(calls[c].response.retryAfter)
        /\ calls[c].wakeAt - calls[c].sleptAt = 8000

\* C14: a GET that begins while the map holds nothing under its key starts
\* a fetch of its own, whatever calls for the same key are in flight, and
\* leaves those calls as they are; every call in flight has sent one request
\* per attempt it has begun.
C14_EachMissFetches ==
    [][/\ \A c \in Slots :
            (StartsGet(c) /\ KeyOf(calls'[c]) \notin DOMAIN cache)
               => /\ calls'[c].pc = "fetching"
                  /\ calls'[c].netCalls = 1
                  /\ \A d \in Slots \ {c} : calls'[d] = calls[d]
       /\ \A c \in Slots :
            calls'[c].pc \in {"fetching", "reading", "sleeping"}
               => calls'[c].netCalls = calls'[c].attempt + 1]_vars

\* Two GETs for the same key are fetching at once, each on its first
\* request, and the map holds nothing under the key.
C14_Witness ==
    \E c, d \in Slots :
        /\ c # d
        /\ calls[c].pc = "fetching" /\ calls[d].pc = "fetching"
        /\ calls[c].method = "GET" /\ calls[d].method = "GET"
        /\ KeyOf(calls[c]) = KeyOf(calls[d])
        /\ calls[c].netCalls = 1 /\ calls[d].netCalls = 1
        /\ KeyOf(calls[c]) \notin DOMAIN cache

\* C15: when the sleep of a call ends, the call sends its next request in
\* that very step and the map is neither read nor changed, whatever the map
\* holds under the call's key by then.
C15_RetrySkipsCache ==
    [][\A c \in Slots :
         (calls[c].pc = "sleeping" /\ calls'[c] # calls[c])
            => /\ calls'[c].pc = "fetching"
               /\ calls'[c].attempt = calls[c].attempt + 1
               /\ calls'[c].netCalls = calls[c].netCalls + 1
               /\ cache' = cache]_vars

\* A GET is on its second request, after a 429 and a sleep, while the map
\* holds a fresh value for its key, stored by another call since it began.
C15_Witness ==
    \E c \in Slots :
        /\ calls[c].pc = "fetching" /\ calls[c].method = "GET"
        /\ calls[c].attempt = 1 /\ calls[c].sleeps = 1 /\ calls[c].netCalls = 2
        /\ ~calls[c].evicted
        /\ KeyOf(calls[c]) \in DOMAIN cache
        /\ ~IsStale(cache[KeyOf(calls[c])], now)
        /\ cache[KeyOf(calls[c])].data # JsonNull

\* C16: an upload begins with one POST and touches the map in no step; the
\* step that answers or rejects that POST ends the call with no further
\* request and no sleep, by a throw carrying the status when the answer is
\* not 2xx (429 and 503 too) and by a throw when the POST was rejected.
C16_UploadsSendOnePost ==
    [][\A c \in Slots :
         /\ (calls[c].pc = "idle" /\ calls'[c].op \in Uploads)
               => /\ calls'[c].pc = "uploading" /\ calls'[c].method = "POST"
                  /\ calls'[c].netCalls = 1
                  /\ cache' = cache
         /\ (calls[c].op \in Uploads /\ calls'[c] # calls[c])
               => /\ cache' = cache
                  /\ calls'[c].pc \in {"done", "idle"}
                  /\ calls[c].pc = "uploading"
                        => /\ calls'[c].pc = "done"
                           /\ calls'[c].netCalls = 1 /\ calls'[c].sleeps = 0
                           /\ (IsOk(calls'[c].response.status) /\ calls'[c].rejects = 0)
                                 <=> calls'[c].result.state = "returned"
                           /\ (calls'[c].rejects = 0 /\ ~IsOk(calls'[c].response.status))
                                 => /\ calls'[c].result.state = "thrown"
                                    /\ calls'[c].result.error.error = "API_ERROR"
                                    /\ calls'[c].result.error.status = calls'[c].response.status]_vars

\* An upload has ended on a 429 that said Retry-After: 2, after its one
\* POST, while the map holds an entry.
C16_Witness ==
    \E c \in Slots :
        /\ calls[c].pc = "done" /\ calls[c].op \in Uploads
        /\ calls[c].response.status = 429 /\ calls[c].response.retryAfter = Hdr(<<"2">>)
        /\ calls[c].netCalls = 1
        /\ calls[c].result.error.status = 429
        /\ cache # EmptyMap

\* C17: a delete tool sends a DELETE to the client only when it was called
\* with confirm true: every call that has sent a DELETE was made by a delete
\* tool given confirm true, and a delete tool given confirm false has ended
\* at once with an error result (the safety text), no client call made and
\* nothing sent.
C17_DeleteNeedsConfirm ==
    \A c \in Slots :
        LET call == calls[c]
        IN  /\ (call.method = "DELETE" /\ call.netCalls > 0)
                => (call.tool \in DeleteTools /\ call.params.confirm = "true")
            /\ (call.tool \in DeleteTools /\ call.params.confirm # "true")
                => /\ call.pc = "done" /\ call.op = "none" /\ call.netCalls = 0
                   /\ call.result = NoResult
                   /\ ToolResult(call) = [isError |-> TRUE, text |-> MsgConfirm(call.tool)]

\* A delete tool called with confirm true has sent its DELETE and returned
\* success.
C17_Witness ==
    \E c \in Slots :
        /\ calls[c].tool = "bamboohr_delete_goal" /\ calls[c].params.confirm = "true"
        /\ calls[c].pc = "done" /\ calls[c].method = "DELETE" /\ calls[c].netCalls = 1
        /\ ~ToolResult(calls[c]).isError

\* C18: a status change to 'denied', and a balance adjustment by a negative
\* amount, send no PUT to the client unless confirm: true was given.
C18_RiskyUpdateNeedsConfirm ==
    \A c \in Slots :
        LET call == calls[c]
        IN  ( /\ \/ call.tool = ChangeStatusTool /\ call.params.status = "denied"
                 \/ call.tool = AdjustBalanceTool /\ call.params.amount < 0
              /\ call.params.confirm # "true" )
            => call.netCalls = 0

\* C19: a call of makeRequest that returns what a 2xx response brought
\* returns the empty result when the status is 204 or the content-type
\* header is missing (absent or empty), the parsed JSON body when the
\* content type contains application/json, and the text body in every other
\* case; and only a response of the last two kinds has its body read.
C19_ResultShapes ==
    \A c \in Slots :
        LET call == calls[c]
            r == call.response
            empty == r.status = 204 \/ r.contentType \in {NoHeader, ""}
        IN  /\ call.pc = "reading" => (IsOk(r.status) /\ ~empty)
            /\ (call.pc = "done" /\ call.result.state = "returned" /\ call.netCalls > 0)
                => /\ IsOk(r.status)
                   /\ empty => call.result.value = EmptyObject
                   /\ (~empty /\ IncludesJson(r.contentType)) => call.result.value \in JsonBodies
                   /\ (~empty /\ ~IncludesJson(r.contentType)) => call.result.value \in TextBodies

\* A 204 that declares a JSON body has returned the empty result.
C19_Witness ==
    \E c \in Slots :
        /\ calls[c].pc = "done" /\ calls[c].netCalls > 0
        /\ calls[c].response.status = 204 /\ IncludesJson(calls[c].response.contentType)
        /\ calls[c].result = Returned(EmptyObject)

\* C20: the body uploadFile has built holds, in this order, the file part
\* (the boundary line, the Content-Disposition with name="file" and the
\* given file name, the Content-Type that the table gives for the name's
\* extension, application/octet-stream for an extension the table does not
\* have), the payload's bytes, a category part if and only if a (non-empty)
\* category was given, and the closing boundary: two parts with a category,
\* one without.
C20_MultipartBody ==
    \A c \in Slots :
        LET call == calls[c]
            a == call.upload.args
            b == call.upload.boundary
            body == call.upload.body
            ext == extension(a.name)
            given == a.category \notin {NoField, ""}
            lines == body.prefix \o body.suffix
        IN  (call.op = "uploadFile" /\ call.pc \in {"uploading", "done"})
            => /\ body.prefix =
                    << Delimiter(b), FileDisposition(a.name),
                       "Content-Type: "
                         \o (IF ext \in KnownExtensions THEN contentTypeMap[ext] ELSE OctetStream)
                         \o CRLF \o CRLF >>
               /\ body.file = fileBuffer(a.data)
               /\ body.suffix =
                    <<CRLF>>
                    \o (IF given THEN <<Delimiter(b), CategoryDisposition, a.category \o CRLF>> ELSE <<>>)
                    \o <<Closing(b)>>
               /\ Cardinality({i \in 1..Len(lines) : lines[i] = Delimiter(b)}) = (IF given THEN 2 ELSE 1)

\* C21: an uploadFile answered 2xx returns as id the text after the last
\* slash of the Location header (987 for /files/987); when the header is
\* absent (or empty) it returns an absent id, and raises no error.
C21_IdFromLocation ==
    \A c \in Slots :
        LET call == calls[c]
            location == call.upload.location
        IN  (call.op = "uploadFile" /\ call.pc = "done" /\ IsOk(call.response.status))
            => /\ call.result.state = "returned"
               /\ location = Hdr(<<"/", "f", "i", "l", "e", "s", "/", "9", "8", "7">>)
                    => call.result.value = "{id:987}"
               /\ (location = Absent \/ location.chars = <<>>)
                    => call.result.value = "{id:undefined}"
               /\ (location.present /\ location.chars # <<>>)
                    => call.result.value = "{id:" \o Text(LastSegment(location.chars, "/")) \o "}"

\* An uploadFile answered 200 with Location: /files/987 has returned id 987.
C21_Witness ==
    \E c \in Slots :
        /\ calls[c].op = "uploadFile" /\ calls[c].pc = "done" /\ calls[c].response.status = 200
        /\ calls[c].upload.location = Hdr(<<"/", "f", "i", "l", "e", "s", "/", "9", "8", "7">>)
        /\ calls[c].result = Returned("{id:987}")

\* C22: the object createPaginationInfo(total, count, offset, limit) returns
\* has has_more true exactly when offset + count < total, has the property
\* next_offset, equal to offset + limit, exactly when has_more is true, and
\* has total, count and offset as they were given.
C22_PaginationInfo ==
    \A c \in Slots :
        LET p == calls[c].page
        IN  (calls[c].op = "createPaginationInfo" /\ calls[c].pc = "done")
            => /\ p.info.has_more = (p.offset + p.count < p.total)
               /\ ("next_offset" \in DOMAIN p.info) = p.info.has_more
               /\ p.info.has_more => p.info.next_offset = p.offset + p.limit
               /\ p.info.total = p.total /\ p.info.count = p.count /\ p.info.offset = p.offset
               /\ DOMAIN p.info \subseteq {"has_more", "next_offset", "total", "count", "offset"}

\* A page of two items out of three, asked for with limit 1: more to come,
\* from offset 1.
C22_Witness ==
    \E c \in Slots :
        /\ calls[c].op = "createPaginationInfo" /\ calls[c].pc = "done"
        /\ calls[c].page.total = 3 /\ calls[c].page.count = 2
        /\ calls[c].page.offset = 0 /\ calls[c].page.limit = 1
        /\ calls[c].page.info.has_more /\ calls[c].page.info.next_offset = 1

\* C23: every call of makeRequest ends.  Given that each fetch and each
\* body read completes and each sleep elapses, a call that has begun comes
\* to return or throw; it never makes more than maxRetries + 1 network
\* attempts; and until it has returned or thrown nothing takes it back.
InFlight == {"fetching", "reading", "sleeping"}
C23_Terminates ==
    /\ [](\A c \in Slots : calls[c].netCalls <= calls[c].maxRetries + 1)
    /\ \A c \in Slots : (calls[c].pc \in InFlight) ~> (calls[c].pc = "done" /\ calls[c].result.state # "pending")
    /\ [][\A c \in Slots : calls[c].pc \in InFlight => calls'[c].pc \in InFlight \cup {"done"}]_vars

\* A call with three retries has thrown after four network attempts and
\* three sleeps.
C23_Witness ==
    \E c \in Slots :
        /\ calls[c].pc = "done" /\ calls[c].result.state = "thrown"
        /\ calls[c].maxRetries = DefaultMaxRetries /\ calls[c].netCalls = DefaultMaxRetries + 1
        /\ calls[c].sleeps = DefaultMaxRetries

\* C30: getReport uses neither the cache nor the retry loop: it begins with
\* one GET on the network, also when the map holds a fresh entry for its
\* endpoint; no step of it changes the map; it never sends a second request
\* and never sleeps; an answer that is not 2xx (429 and 503 too) ends it in
\* that step with a throw carrying the status.
C30_ReportBypassesCacheAndRetry ==
    [][\A c \in Slots :
         /\ (calls[c].pc = "idle" /\ calls'[c].op = "getReport")
               => /\ calls'[c].pc = "reporting" /\ calls'[c].method = "GET"
                  /\ calls'[c].netCalls = 1
                  /\ cache' = cache
         /\ (calls[c].op = "getReport" /\ calls'[c] # calls[c])
               => /\ cache' = cache
                  /\ calls'[c].pc \in {"reportBody", "done", "idle"}
                  /\ calls'[c].pc # "idle" => (calls'[c].netCalls = 1 /\ calls'[c].sleeps = 0)
                  /\ (calls[c].pc = "reporting" /\ calls'[c].rejects = 0
                      /\ ~IsOk(calls'[c].response.status))
                        => /\ calls'[c].pc = "done"
                           /\ calls'[c].result.state = "thrown"
                           /\ calls'[c].result.error.error = "API_ERROR"
                           /\ calls'[c].result.error.status = calls'[c].response.status]_vars

\* A report is on the network although the map holds a fresh entry, with a
\* value other than null, for its endpoint.
C30_Witness ==
    \E c \in Slots :
        /\ calls[c].op = "getReport" /\ calls[c].pc = "reporting" /\ calls[c].netCalls = 1
        /\ KeyOf(calls[c]) \in DOMAIN cache
        /\ ~IsStale(cache[KeyOf(calls[c])], now)
        /\ cache[KeyOf(calls[c])].data # JsonNull

\* C24: an entry leaves the map only in the step in which a GET through
\* makeRequest for exactly its key begins, more than cacheTTL after the
\* entry was stored.  No other step (another key's GET, a POST, an upload, a
\* report, a failing request, the passing of time) removes an entry, so an
\* entry that is not looked up again stays, however old.
C24_RemovedOnlyByStaleLookup ==
    [][\A k \in DOMAIN cache :
         k \notin DOMAIN cache'
            => \E c \in Slots :
                  /\ StartsGet(c) /\ calls'[c].op = "makeRequest"
                  /\ KeyOf(calls'[c]) = k
                  /\ now - cache[k].timestamp > cacheTTL]_vars

\* A GET is on the network after its lookup removed its key's stale entry,
\* and the stale entry of the other key, not looked up, is still in the map.
C24_Witness ==
    \E c \in Slots, k \in DOMAIN cache :
        /\ calls[c].pc = "fetching" /\ calls[c].op = "makeRequest" /\ calls[c].evicted
        /\ KeyOf(calls[c]) # k
        /\ IsStale(cache[k], now)

\* C25: a GET whose query object has the members of another query object in
\* a different order has a different cache key: when the map holds a fresh
\* value for the other order only, the GET misses, sends its own request
\* and leaves that entry as it is; both entries can be in the map together.
SameMembers(q1, q2) ==
    /\ q1.defined /\ q2.defined /\ q1 # q2
    /\ { q1.entries[i] : i \in 1..Len(q1.entries) } = { q2.entries[i] : i \in 1..Len(q2.entries) }
C25_OrderMakesDistinctKeys ==
    [][\A c \in Slots : (StartsGet(c) /\ calls'[c].op = "makeRequest") =>
         \A q \in QueryParamsSet : SameMembers(q, calls'[c].queryParams) =>
            LET k == KeyOf(calls'[c])
                other == getCacheKey(calls'[c].endpoint, q)
            IN  /\ other # k
                /\ (k \notin DOMAIN cache /\ other \in DOMAIN cache)
                      => /\ calls'[c].pc = "fetching" /\ calls'[c].netCalls = 1
                         /\ other \in DOMAIN cache' /\ cache'[other] = cache[other]]_vars

\* The map holds a fresh entry for either order of the same two members.
C25_Witness ==
    \E q1 \in QueryParamsSet, q2 \in QueryParamsSet, e \in Endpoints :
        /\ SameMembers(q1, q2)
        /\ getCacheKey(e, q1) \in DOMAIN cache /\ getCacheKey(e, q2) \in DOMAIN cache
        /\ ~IsStale(cache[getCacheKey(e, q1)], now) /\ ~IsStale(cache[getCacheKey(e, q2)], now)

\* C26: a POST, PUT or DELETE is on the network a second time only when an
\* earlier attempt of the same call was answered 429 or 503: a rejected
\* fetch, or a body that cannot be parsed, never sends it again.
C26_MutationResentOnlyAfterRateLimit ==
    \A c \in Slots :
        (calls[c].op = "makeRequest" /\ calls[c].method \in Mutations /\ calls[c].netCalls > 1)
          => calls[c].rateLimited

\* Slot d holds a GET for key k that went to the network and returned.
ReturnedFromNetwork(d, k) ==
    /\ calls[d].pc = "done"
    /\ calls[d].op = "makeRequest"
    /\ calls[d].method = "GET"
    /\ calls[d].result.state = "returned"
    /\ calls[d].netCalls > 0
    /\ KeyOf(calls[d]) = k

\* The response was taken as JSON: a content type that includes
\* "application/json" on a status other than 204.
TakenAsJson(response) == IncludesJson(response.contentType) /\ response.status # 204

\* C27 (as stated): a GET that succeeded is cached whatever the shape of its
\* result: once a GET for a key has returned from the network with a parsed
\* JSON value, the empty object or raw text, an identical GET that begins
\* within cacheTTL is served from the map without a network call.
C27_AnyShapeCached ==
    [][\A c \in Slots, d \in Slots :
          LET k == KeyOf(calls'[c])
          IN  (c # d /\ StartsGet(c) /\ calls'[c].op = "makeRequest" /\ ReturnedFromNetwork(d, k))
                  => ServedFromCache(c, k)]_vars

\* C27 (amended): only a result parsed from JSON is cached. A GET that
\* returns the empty object (no content type, an empty one, or 204) or raw
\* text leaves the map exactly as it was, while one that returns a parsed
\* JSON body stores that body under its key with the time of the return;
\* and an identical GET that begins while the map has no entry under the
\* key goes to the network, also when a GET for that key has just returned.
C27_OnlyJsonCached ==
    [][\A c \in Slots :
          LET k == KeyOf(calls'[c])
          IN  /\ (Returns(c) /\ calls[c].op = "makeRequest" /\ calls[c].method = "GET") =>
                     IF TakenAsJson(calls'[c].response)
                     THEN /\ calls'[c].stored
                          /\ k \in DOMAIN cache'
                          /\ cache'[k].data = calls'[c].result.value
                          /\ cache'[k].timestamp = now
                     ELSE /\ ~calls'[c].stored
                          /\ cache' = cache
              /\ (StartsGet(c) /\ calls'[c].op = "makeRequest" /\ k \notin DOMAIN cache) =>
                     /\ calls'[c].pc = "fetching"
                     /\ calls'[c].netCalls = 1]_vars

\* A GET has returned raw text from the network, the map holds nothing
\* under its key, and an identical GET begun afterwards is at its fetch.
C27_Witness ==
    \E c \in Slots, d \in Slots :
        /\ c # d
        /\ ReturnedFromNetwork(d, KeyOf(calls[c]))
        /\ calls[d].result.value \in TextBodies
        /\ ~TakenAsJson(calls[d].response)
        /\ KeyOf(calls[d]) \notin DOMAIN cache
        /\ calls[c].pc = "fetching"
        /\ calls[c].method = "GET"
        /\ calls[c].netCalls = 1

\* C28: every network attempt of a call after its first follows a sleep of
\* that call: never two attempts back to back.  A sleep lasts the seconds
\* Retry-After gave (taken here for a count of seconds from 1 up to what a
\* timer holds), or without the header the backoff delay of the moment,
\* which is 1000 ms or more.
C28_SleepBetweenAttempts ==
    \A c \in Slots :
        LET call == calls[c]
            h == call.response.retryAfter
        IN  /\ call.netCalls <= call.sleeps + 1
            /\ (call.pc = "sleeping" /\ ~h.present)
                 => (call.wakeAt - call.sleptAt = call.retryDelay /\ call.retryDelay >= InitialRetryDelay)
            /\ (call.pc = "sleeping" /\ Truthy(h) /\ parseInt(h.chars) \in 1..(MaxTimerDelay \div 1000))
                 => call.wakeAt - call.sleptAt = parseInt(h.chars) * 1000


\* Slot c's GET reads its JSON body in this step and returns it.
ProcessesResponse(c) ==
    /\ calls[c].pc = "reading"
    /\ Returns(c)
    /\ calls[c].method = "GET"
    /\ TakenAsJson(calls[c].response)

\* C29: with several identical GETs in flight at once, the entry under their
\* key is written in the step in which a call's response is processed and
\* in no other: that step puts the call's own response there with the time
\* of that step, over whatever another call had stored and whichever call
\* began first. So once all have ended the entry is that of the call
\* processed last, and its age counts from that moment, not from the start
\* of the request.
C29_LastProcessedWins ==
    [][/\ \A c \in Slots :
            ProcessesResponse(c) =>
                LET k == KeyOf(calls[c])
                IN  /\ k \in DOMAIN cache'
                    /\ cache'[k].data = calls'[c].result.value
                    /\ cache'[k].timestamp = now
                    /\ cache'[k].by = StoredBy(calls[c])
       /\ \A k \in DOMAIN cache' :
            (k \notin DOMAIN cache \/ cache'[k] # cache[k])
                => \E c \in Slots : ProcessesResponse(c) /\ KeyOf(calls[c]) = k]_vars

\* Two GETs for one key have both gone to the network and both returned a
\* stored body, two different ones. Call c began at time 0, was answered
\* 429 and slept; its second response was processed last, at a later time:
\* the entry holds c's body and that later time.
C29_Witness ==
    \E c, d \in Slots :
        LET k == KeyOf(calls[c])
        IN  /\ c # d
            /\ ReturnedFromNetwork(c, k) /\ ReturnedFromNetwork(d, k)
            /\ calls[c].stored /\ calls[d].stored
            /\ calls[c].sleeps = 1 /\ calls[c].netCalls = 2
            /\ calls[d].netCalls = 1
            /\ calls[c].result.value # calls[d].result.value
            /\ k \in DOMAIN cache
            /\ cache[k].data = calls[c].result.value
            /\ cache[k].timestamp = now
            /\ now > 0 /\ now < cacheTTL

====
